---- MODULE Spec2Model ----
(***************************************************************************)
(* noodlog: the leveled logging entry points, the package-level            *)
(* configuration they read, and the log-record composition pipeline        *)
(* (composeMessage, adaptMessage, strToObj, obscureSensitiveData,          *)
(* composeLog, printLog) of logger.go.                                     *)
(*                                                                         *)
(* A Go string is a sequence of one-character strings, so that the regular *)
(* expressions, the JSON scanner and the fmt verbs work on characters as   *)
(* the code does.  A Go value (interface{}) is a record [k, s, f]: k is the *)
(* dynamic type, s the text of a string or number, f the fields of a       *)
(* struct or map as a sequence of <<key, value>> pairs.                    *)
(***************************************************************************)
EXTENDS Integers, Sequences, FiniteSets, TLC

Q == "\""

BS == "\\"

NL == "\n"

\* the escape character, U+001B
Esc == "\\033"

Cat3(a, b, c) == a \o b \o c

\* strings.Contains(s, c) for a one-character c
Contains(s, c) == \E i \in 1..Len(s) : s[i] = c

\* s[i:] of Go, with 1-based i
From(s, i) == IF i > Len(s) THEN <<>> ELSE SubSeq(s, i, Len(s))

\* whether pat occurs in t at position i
MatchAt(t, i, pat) ==
    /\ i + Len(pat) - 1 <= Len(t)
    /\ \A j \in 1..Len(pat) : t[i + j - 1] = pat[j]

\* the least element of a set of positions, 0 when it is empty
First(S) == IF S = {} THEN 0 ELSE CHOOSE j \in S : \A k \in S : j <= k

\* the concatenation of the texts of ss
RECURSIVE Flat(_)
Flat(ss) ==
    IF Len(ss) = 0 THEN <<>>
    ELSE IF Len(ss) = 1 THEN ss[1]
    ELSE Flat(SubSeq(ss, 1, Len(ss) \div 2)) \o Flat(SubSeq(ss, Len(ss) \div 2 + 1, Len(ss)))

(***************************************************************************)
(* Go values                                                               *)
(***************************************************************************)
Val(k, s, f) == [k |-> k, s |-> s, f |-> f]

NilV == Val("nil", <<>>, <<>>)

StrV(s) == Val("string", s, <<>>)

IntV(s) == Val("int", s, <<>>)

\* a struct value: its exported fields in declaration order
StructV(f) == Val("struct", <<>>, f)

\* what json.Unmarshal into interface{} yields
NumV(s) == Val("float64", s, <<>>)

BoolV(s) == Val("bool", s, <<>>)

MapV(f) == Val("map", <<>>, f)

(***************************************************************************)
(* Redactor: obscureSensitiveData / obscureParam                           *)
(***************************************************************************)
\* the replacement text of both passes holds ten asterisks
Mask == <<"*", "*", "*", "*", "*", "*", "*", "*", "*", "*">>

\* `.*?` followed by pat, from position i: the first position >= i where pat
\* occurs, with no line break before it ('.' matches no "\n"); 0 when none
FindDot(t, i, pat) ==
    LET j == First({k \in i..Len(t) : MatchAt(t, k, pat)})
    IN  IF j = 0 \/ \E k \in i..(j - 1) : t[k] = NL THEN 0 ELSE j

\* the end of a match whose `.*?"` ends at position j: `(.*?)` and close
CloseAfter(t, j, close) == IF j = 0 THEN 0 ELSE FindDot(t, j + 1, close)

\* the last position of a match that ends with close at k
EndAt(k, close) == IF k = 0 THEN 0 ELSE k + Len(close) - 1

\* `pre.*?"(.*?)close`: the last position of the match that starts at i, 0
\* when none starts there
MatchEnd(t, i, pre, close) ==
    IF ~MatchAt(t, i, pre) THEN 0
    ELSE EndAt(CloseAfter(t, FindDot(t, i + Len(pre), <<Q>>), close), close)

\* the leftmost match of `pre.*?"(.*?)close` at or after i, 0 when none
Leftmost(t, i, pre, close) == First({k \in i..Len(t) : MatchEnd(t, k, pre, close) # 0})

\* ReplaceAllString(t, repl) of `pre.*?"(.*?)close` from position i on: the
\* text up to the leftmost match, repl, and the rest likewise
RECURSIVE ReplaceAll(_, _, _, _, _)
ReplaceFrom(t, i, j, pre, close, repl) ==
    IF j = 0 THEN From(t, i)
    ELSE Cat3(SubSeq(t, i, j - 1), repl,
              ReplaceAll(t, MatchEnd(t, j, pre, close) + 1, pre, close, repl))

ReplaceAll(t, i, pre, close, repl) ==
    ReplaceFrom(t, i, Leftmost(t, i, pre, close), pre, close, repl)

\* rWithSlash.ReplaceAllString(jsn, `\"param\": \"**********\"`)
ReplaceSlash(jsn, param) ==
    ReplaceAll(jsn, 1, Cat3(<<BS, Q>>, param, <<BS, Q, ":">>), <<BS, Q>>,
               Cat3(<<BS, Q>>, param, <<BS, Q, ":", " ", BS, Q>>) \o Mask \o <<BS, Q>>)

\* rWithoutSlash.ReplaceAllString(jsn, `"param": "**********"`)
ReplacePlain(jsn, param) ==
    ReplaceAll(jsn, 1, Cat3(<<Q>>, param, <<Q, ":">>), <<Q>>,
               Cat3(<<Q>>, param, <<Q, ":", " ", Q>>) \o Mask \o <<Q>>)

obscureParam(jsn, param) == ReplacePlain(ReplaceSlash(jsn, param), param)

\* for _, param := range params { jsn = obscureParam(jsn, param) }
RECURSIVE obscureSensitiveData(_, _)
obscureSensitiveData(jsn, params) ==
    IF params = <<>> THEN jsn
    ELSE obscureSensitiveData(obscureParam(jsn, Head(params)), Tail(params))

(***************************************************************************)
(* encoding/json as strToObj and composeLog use it: json.Valid and         *)
(* json.Unmarshal into interface{}, json.Marshal and json.MarshalIndent.   *)
(* Numbers are integers, and strings hold no \u and no \b escape: no text  *)
(* of the model holds a '.', an exponent or such an escape.                *)
(***************************************************************************)
Digits == {"0", "1", "2", "3", "4", "5", "6", "7", "8", "9"}

\* the printable characters in byte order (the backquote left out)
Ascii ==
    <<" ", "!", "\"", "#", "$", "%", "&", "'", "(", ")", "*", "+", ",", "-",
      ".", "/", "0", "1", "2", "3", "4", "5", "6", "7", "8", "9", ":", ";",
      "<", "=", ">", "?", "@", "A", "B", "C", "D", "E", "F", "G", "H", "I",
      "J", "K", "L", "M", "N", "O", "P", "Q", "R", "S", "T", "U", "V", "W",
      "X", "Y", "Z", "[", "\\", "]", "^", "_", "a", "b", "c", "d", "e",
      "f", "g", "h", "i", "j", "k", "l", "m", "n", "o", "p", "q", "r", "s",
      "t", "u", "v", "w", "x", "y", "z", "{", "|", "}", "~">>

\* the control characters a text of the model can hold
Control == {NL, "\t", "\r", "\f", Esc}

Rank(c) == IF c \in Control THEN 0 ELSE CHOOSE i \in 1..Len(Ascii) : Ascii[i] = c

\* a < b as Go compares strings (map keys are marshalled in this order)
RECURSIVE LessText(_, _)
LessText(a, b) ==
    IF b = <<>> THEN FALSE
    ELSE IF a = <<>> THEN TRUE
    ELSE IF Head(a) = Head(b) THEN LessText(Tail(a), Tail(b))
    ELSE Rank(Head(a)) < Rank(Head(b))

\* m[key] = v on a map kept as key-sorted pairs
RECURSIVE MapPut(_, _, _)
MapPut(f, key, v) ==
    IF f = <<>> THEN <<<<key, v>>>>
    ELSE IF Head(f)[1] = key THEN <<<<key, v>>>> \o Tail(f)
    ELSE IF LessText(key, Head(f)[1]) THEN <<<<key, v>>>> \o f
    ELSE <<Head(f)>> \o MapPut(Tail(f), key, v)

Fail == [ok |-> FALSE, v |-> NilV, n |-> 0]

Got(v, n) == [ok |-> TRUE, v |-> v, n |-> n]

\* the scanner skips spaces, tabs and line breaks between tokens
RECURSIVE SkipWS(_, _)
SkipWS(t, i) ==
    IF i <= Len(t) /\ t[i] \in {" ", "\t", "\r", NL} THEN SkipWS(t, i + 1) ELSE i

\* the rest of a string literal, after its opening quote
RECURSIVE ScanString(_, _, _)
ScanString(t, j, acc) ==
    IF j > Len(t) THEN Fail
    ELSE IF t[j] = Q THEN Got(StrV(acc), j + 1)
    ELSE IF t[j] \in Control THEN Fail
    ELSE IF t[j] = BS THEN
        IF j + 1 > Len(t) THEN Fail
        ELSE IF t[j + 1] \in {Q, BS, "/"} THEN ScanString(t, j + 2, Append(acc, t[j + 1]))
        ELSE IF t[j + 1] = "n" THEN ScanString(t, j + 2, Append(acc, NL))
        ELSE IF t[j + 1] = "t" THEN ScanString(t, j + 2, Append(acc, "\t"))
        ELSE IF t[j + 1] = "r" THEN ScanString(t, j + 2, Append(acc, "\r"))
        ELSE IF t[j + 1] = "f" THEN ScanString(t, j + 2, Append(acc, "\f"))
        ELSE Fail
    ELSE ScanString(t, j + 1, Append(acc, t[j]))

\* the digits from j on
RECURSIVE ScanDigits(_, _)
ScanDigits(t, j) ==
    IF j <= Len(t) /\ t[j] \in Digits THEN ScanDigits(t, j + 1) ELSE j

\* the integer literal whose digits start at d: (0 | [1-9][0-9]*)
DigitsAt(t, i, d) ==
    IF d > Len(t) \/ t[d] \notin Digits THEN Fail
    ELSE IF t[d] = "0" THEN Got(NumV(SubSeq(t, i, d)), d + 1)
    ELSE Got(NumV(SubSeq(t, i, ScanDigits(t, d) - 1)), ScanDigits(t, d))

\* an integer literal with its sign
ScanNumber(t, i) == DigitsAt(t, i, IF t[i] = "-" THEN i + 1 ELSE i)

RECURSIVE ScanValue(_, _)
RECURSIVE ScanMembers(_, _, _)
\* after a member's value, at position e: '}' ends the object m, ',' leads
\* to the next member
AfterMember(t, m, e) ==
    IF e > Len(t) THEN Fail
    ELSE IF t[e] = "}" THEN Got(MapV(m), e + 1)
    ELSE IF t[e] = "," THEN ScanMembers(t, e + 1, m)
    ELSE Fail

\* a member's scanned value val joins the members acc under key
MemberValue(t, acc, key, val) ==
    IF ~val.ok THEN Fail ELSE AfterMember(t, MapPut(acc, key, val.v), SkipWS(t, val.n))

\* after a member's key, at position c: a ':' and the value
MemberColon(t, acc, key, c) ==
    IF c > Len(t) \/ t[c] # ":" THEN Fail
    ELSE MemberValue(t, acc, key, ScanValue(t, c + 1))

MemberKey(t, acc, key) ==
    IF ~key.ok THEN Fail ELSE MemberColon(t, acc, key.v.s, SkipWS(t, key.n))

\* the string literal that opens at position j, if one does
KeyAt(t, j) == IF j > Len(t) \/ t[j] # Q THEN Fail ELSE ScanString(t, j + 1, <<>>)

\* the members of an object from its next key on: "key" : value (, | })
ScanMembers(t, i, acc) == MemberKey(t, acc, KeyAt(t, SkipWS(t, i)))

\* the object whose '{' is before position k: no member, or members
ObjectAt(t, k) ==
    IF k <= Len(t) /\ t[k] = "}" THEN Got(MapV(<<>>), k + 1) ELSE ScanMembers(t, k, <<>>)

\* the JSON value at position j
ValueAt(t, j) ==
    IF j > Len(t) THEN Fail
    ELSE IF t[j] = Q THEN ScanString(t, j + 1, <<>>)
    ELSE IF t[j] = "-" \/ t[j] \in Digits THEN ScanNumber(t, j)
    ELSE IF MatchAt(t, j, <<"t", "r", "u", "e">>)
        THEN Got(BoolV(<<"t", "r", "u", "e">>), j + 4)
    ELSE IF MatchAt(t, j, <<"f", "a", "l", "s", "e">>)
        THEN Got(BoolV(<<"f", "a", "l", "s", "e">>), j + 5)
    ELSE IF MatchAt(t, j, <<"n", "u", "l", "l">>) THEN Got(NilV, j + 4)
    ELSE IF t[j] = "{" THEN ObjectAt(t, SkipWS(t, j + 1))
    ELSE Fail

\* one JSON value starting at or after i
ScanValue(t, i) == ValueAt(t, SkipWS(t, i))

\* a scan r of all of t: a value and nothing but space after it
Whole(t, r) == IF r.ok /\ SkipWS(t, r.n) > Len(t) THEN r ELSE Fail

\* json.Unmarshal(t, &obj) into an interface{}
Unmarshal(t) == Whole(t, ScanValue(t, 1))

Valid(t) == Unmarshal(t).ok

\* a character of a string as json.Marshal writes it (HTML-safe escaping included)
EscapeChar(c) ==
    CASE c = Q -> <<BS, Q>>
      [] c = BS -> <<BS, BS>>
      [] c = NL -> <<BS, "n">>
      [] c = "\t" -> <<BS, "t">>
      [] c = "\r" -> <<BS, "r">>
      [] c = "\f" -> <<BS, "u", "0", "0", "0", "c">>
      [] c = Esc -> <<BS, "u", "0", "0", "1", "b">>
      [] c = "<" -> <<BS, "u", "0", "0", "3", "c">>
      [] c = ">" -> <<BS, "u", "0", "0", "3", "e">>
      [] c = "&" -> <<BS, "u", "0", "0", "2", "6">>
      [] OTHER -> <<c>>

Escape(s) == Flat([i \in 1..Len(s) |-> EscapeChar(s[i])])

Quoted(s) == Cat3(<<Q>>, Escape(s), <<Q>>)

RECURSIVE Marshal(_)
RECURSIVE MarshalFields(_)
\* json.Marshal(v), compact
Marshal(v) ==
    CASE v.k = "string" -> Quoted(v.s)
      [] v.k \in {"int", "float64", "bool"} -> v.s
      [] v.k = "nil" -> <<"n", "u", "l", "l">>
      [] OTHER -> Cat3(<<"{">>, MarshalFields(v.f), <<"}">>)

MarshalFields(f) ==
    IF f = <<>> THEN <<>>
    ELSE Cat3(Quoted(f[1][1]), <<":">>, Marshal(f[1][2]))
             \o (IF Len(f) = 1 THEN <<>> ELSE <<",">> \o MarshalFields(Tail(f)))

(***************************************************************************)
(* fmt: Sprintf, Fprintf and the "%v " of stringify.  A directive is '%',  *)
(* flags, a width and a verb; a width pads only what an argument prints,   *)
(* and no format of the model that has an argument has a width.  The verbs *)
(* v, s and d format a string, an int or nil; the other verbs a string or  *)
(* an int accepts (q, x, X, b, o, c, U) are in no format of the model.     *)
(***************************************************************************)
TypeName(v) == IF v.k = "string" THEN <<"s", "t", "r", "i", "n", "g">> ELSE <<"i", "n", "t">>

\* printArg(arg, verb)
printArg(arg, verb) ==
    CASE arg.k = "nil" ->
            IF verb = "v" THEN <<"<", "n", "i", "l", ">">> ELSE Cat3(<<"%", "!", verb>>, <<"(", "<", "n", "i", "l", ">">>, <<")">>)
      [] arg.k = "string" /\ verb \in {"v", "s"} -> arg.s
      [] arg.k = "int" /\ verb \in {"v", "d"} -> arg.s
      [] OTHER -> Cat3(<<"%", "!", verb, "(">>, TypeName(arg) \o <<"=">> \o arg.s, <<")">>)

\* the arguments no directive used: type=value, ...
RECURSIVE ExtraArgs(_, _)
ExtraArgs(a, n) ==
    (IF a[n].k = "nil" THEN <<"<", "n", "i", "l", ">">> ELSE Cat3(TypeName(a[n]), <<"=">>, printArg(a[n], "v")))
        \o (IF n = Len(a) THEN <<>> ELSE <<",", " ">> \o ExtraArgs(a, n + 1))

\* the position after the flags and the width of a directive
RECURSIVE SkipFlags(_, _)
SkipFlags(f, i) ==
    IF i <= Len(f) /\ f[i] \in {"#", "+", "-", " "} \cup Digits
    THEN SkipFlags(f, i + 1) ELSE i

\* doPrintf(format, a) from position i, with a[n] the next argument: the text
\* up to the next '%', what its directive prints, and the rest likewise
RECURSIVE doPrintf(_, _, _, _)
doPrintf(f, i, a, n) ==
    LET p == First({k \in i..Len(f) : f[k] = "%"})
        v == SkipFlags(f, p + 1)
    IN  IF p = 0 THEN
            From(f, i) \o (IF n <= Len(a) THEN Cat3(<<"%", "!", "(", "E", "X", "T", "R", "A", " ">>, ExtraArgs(a, n), <<")">>)
                           ELSE <<>>)
        ELSE SubSeq(f, i, p - 1) \o
            (IF v > Len(f) THEN <<"%", "!", "(", "N", "O", "V", "E", "R", "B", ")">> \o doPrintf(f, v, a, n)
             ELSE IF f[v] = "%" THEN <<"%">> \o doPrintf(f, v + 1, a, n)
             ELSE IF n > Len(a)
                 THEN Cat3(<<"%", "!", f[v]>>, <<"(", "M", "I", "S", "S", "I", "N", "G", ")">>, doPrintf(f, v + 1, a, n))
             ELSE printArg(a[n], f[v]) \o doPrintf(f, v + 1, a, n + 1))

\* fmt.Sprintf(format, a...); fmt.Fprintf(w, format) writes Sprintf(format, <<>>)
Sprintf(format, a) == doPrintf(format, 1, a, 1)

(***************************************************************************)
(* Message Composer: composeMessage, stringify, adaptMessage, strToObj     *)
(***************************************************************************)
\* the value a log call ends with when msg[:len(msg)-1] is taken of an empty msg
RuntimePanic == Val("runtime.Error", <<"s", "l", "i", "c", "e", " ", "b", "o", "u", "n", "d", "s", " ", "o", "u", "t", " ", "o", "f", " ", "r", "a", "n", "g", "e", " ", "[", ":", "-", "1", "]">>, <<>>)

Panics(v) == v.k = "runtime.Error"

\* the strings.Builder after the loop: "%v " of every argument that is not nil
RECURSIVE Built(_)
Built(message) ==
    IF message = <<>> THEN <<>>
    ELSE (IF Head(message).k = "nil" THEN <<>> ELSE Sprintf(<<"%", "v", " ">>, <<Head(message)>>))
             \o Built(Tail(message))

stringify(message) ==
    LET msg == Built(message)
    IN  IF Len(msg) - 1 < 0 THEN RuntimePanic ELSE StrV(SubSeq(msg, 1, Len(msg) - 1))

\* the value of a scan r of strMsg, or strMsg itself when it is not valid JSON
Parsed(strMsg, r) == IF r.ok THEN r.v ELSE StrV(strMsg)

strToObj(strMsg) == Parsed(strMsg, Unmarshal(strMsg))

\* enabled and params are what the call reads of obscureSensitiveDataEnabled
\* and sensitiveParams
adaptMessage(message, enabled, params) ==
    IF message.k = "string" THEN
        IF enabled /\ Len(params) # 0
        THEN strToObj(obscureSensitiveData(message.s, params))
        ELSE strToObj(message.s)
    ELSE IF enabled /\ Len(params) # 0
        THEN strToObj(obscureSensitiveData(Marshal(message), params))
    ELSE message

composeMessage(message, enabled, params) ==
    IF Len(message) = 0 THEN StrV(<<>>)
    ELSE IF Len(message) = 1 THEN adaptMessage(message[1], enabled, params)
    ELSE IF message[1].k = "string" /\ Contains(message[1].s, "%")
        THEN StrV(Sprintf(message[1].s, Tail(message)))
    ELSE stringify(message)

(***************************************************************************)
(* Level Registry: the labels, their ranks and the logLevels table         *)
(***************************************************************************)
traceLabel == <<"t", "r", "a", "c", "e">>

debugLabel == <<"d", "e", "b", "u", "g">>

infoLabel == <<"i", "n", "f", "o">>

warnLabel == <<"w", "a", "r", "n">>

errorLabel == <<"e", "r", "r", "o", "r">>

panicLabel == <<"p", "a", "n", "i", "c">>

fatalLabel == <<"f", "a", "t", "a", "l">>

traceLevel == 1

debugLevel == 2

infoLevel == 3

warnLevel == 4

errorLevel == 5

panicLevel == 6

fatalLevel == 7

Labels == {traceLabel, debugLabel, infoLabel, warnLabel, errorLabel, panicLabel, fatalLabel}

\* logLevels[label]: a label the map does not hold reads as 0
logLevels(label) ==
    CASE label = traceLabel -> traceLevel
      [] label = debugLabel -> debugLevel
      [] label = infoLabel -> infoLevel
      [] label = warnLabel -> warnLevel
      [] label = errorLabel -> errorLevel
      [] label = panicLabel -> panicLevel
      [] label = fatalLabel -> fatalLevel
      [] OTHER -> 0

(***************************************************************************)
(* Color Model and Caller Tracer, at their interface                       *)
(***************************************************************************)
\* the escape sequence of a named color
ColorCode(name) ==
    CASE name = "red" -> <<Esc, "[", "3", "1", "m">>
      [] name = "green" -> <<Esc, "[", "3", "2", "m">>
      [] name = "yellow" -> <<Esc, "[", "3", "3", "m">>
      [] name = "cyan" -> <<Esc, "[", "3", "6", "m">>
      [] OTHER -> <<Esc, "[", "0", "m">>

colorReset == <<Esc, "[", "0", "m">>

ColorNames == {"default", "red", "green", "yellow", "cyan"}

\* the per-level color table at process start; a level it does not hold
\* reads as the empty string
DefaultColors ==
    (traceLabel :> "default") @@ (debugLabel :> "green") @@ (infoLabel :> "default")
        @@ (warnLabel :> "yellow") @@ (errorLabel :> "red")

colorMapOf(cmap, level) ==
    IF level \in DOMAIN cmap THEN ColorCode(cmap[level]) ELSE <<>>

\* traceCaller(): the file and the function of the frame the skip depth
\* selects: the caller of the log function, or with single-point tracing
\* the caller of the wrapper around it
traceCaller(single) ==
    IF single THEN <<<<"m", "a", "i", "n", ".", "g", "o">>, <<"m", "a", "i", "n", ".", "r", "u", "n">>>> ELSE <<<<"w", "r", "a", "p", ".", "g", "o">>, <<"w", "r", "a", "p", ".", "L", "o", "g">>>>

(***************************************************************************)
(* Record Renderer: composeLog                                             *)
(***************************************************************************)
\* strings.Split(time.Now().String(), "m")[0] at the one instant of the model
Now == <<"2", "0", "2", "1", "-", "0", "1", "-", "0", "2", " ", "0", "3", ":", "0", "4", ":", "0", "5", ".", "6", " ", "+", "0", "0", "0", "0", " ", "U", "T", "C", " ">>

\* a line break and the indentation of depth d
RECURSIVE Newline(_)
Newline(d) == IF d = 0 THEN <<NL>> ELSE Newline(d - 1) \o <<" ", " ", " ">>

\* the backslashes that end right before position i
SlashRun(t, i) == (i - 1) - First({k \in 0..(i - 1) : \A m \in (k + 1)..(i - 1) : t[m] = BS})

\* the closing quote of the string literal that opens at position i
StringEnd(t, i) == First({k \in (i + 1)..Len(t) : t[k] = Q /\ SlashRun(t, k) % 2 = 0})

\* json.Indent of compact JSON from position i on: d is the depth, need
\* whether a '{' waits for its first member.  A line break and the
\* indentation follow '{' and ',' and precede '}' (none in "{}"), a space
\* follows ':', and a string literal is copied as it is
RECURSIVE Indent(_, _, _, _)
Indent(t, i, d, need) ==
    IF i > Len(t) THEN <<>>
    ELSE IF need /\ t[i] # "}" THEN Newline(d + 1) \o Indent(t, i, d + 1, FALSE)
    ELSE IF t[i] = Q
        THEN SubSeq(t, i, StringEnd(t, i)) \o Indent(t, StringEnd(t, i) + 1, d, FALSE)
    ELSE IF t[i] = "{" THEN <<"{">> \o Indent(t, i + 1, d, TRUE)
    ELSE IF t[i] = "," THEN <<",">> \o Newline(d) \o Indent(t, i + 1, d, FALSE)
    ELSE IF t[i] = ":" THEN <<":", " ">> \o Indent(t, i + 1, d, FALSE)
    ELSE IF t[i] = "}" THEN
        IF need THEN <<"}">> \o Indent(t, i + 1, d, FALSE)
        ELSE Newline(d - 1) \o <<"}">> \o Indent(t, i + 1, d - 1, FALSE)
    ELSE <<t[i]>> \o Indent(t, i + 1, d, FALSE)

\* json.MarshalIndent(v, "", "   ")
MarshalIndent(v) == Indent(Marshal(v), 1, 0, FALSE)

\* the record struct of a call: level, message, time, and file and function
\* when the caller is traced
record(level, msg, g) ==
    StructV(<<<<<<"l", "e", "v", "e", "l">>, StrV(level)>>, <<<<"m", "e", "s", "s", "a", "g", "e">>, msg>>, <<<<"t", "i", "m", "e">>, StrV(Now)>>>>
            \o (IF g.traceCallerEnabled
                THEN <<<<<<"f", "i", "l", "e">>, StrV(traceCaller(g.singlePointTracing)[1])>>,
                       <<<<"f", "u", "n", "c", "t", "i", "o", "n">>, StrV(traceCaller(g.singlePointTracing)[2])>>>>
                ELSE <<>>))

\* json.MarshalIndent or json.Marshal of the record, as JSONPrettyPrint says
Serialized(logMsg, g) == IF g.JSONPrettyPrint THEN MarshalIndent(logMsg) ELSE Marshal(logMsg)

\* the serialized record between the color of its level and the reset
Colored(level, logRecord, g) ==
    IF g.colorEnabled THEN Cat3(colorMapOf(g.colorMap, level), logRecord, colorReset)
    ELSE logRecord

\* the record of the composed message msg, rendered; a panic of
\* composeMessage goes on up the stack
Rendered(level, msg, g) ==
    IF Panics(msg) THEN msg
    ELSE StrV(Colored(level, Serialized(record(level, msg, g), g), g))

\* composeLog(level, message) under the globals g the call reads: the
\* rendered text as a string value, or the runtime panic of composeMessage
composeLog(level, message, g) ==
    Rendered(level, composeMessage(message, g.obscureSensitiveDataEnabled, g.sensitiveParams), g)

(***************************************************************************)
(* Configuration State and the process                                     *)
(***************************************************************************)
VARIABLES
    logLevel,                       \* the active threshold, a rank
    logWriter,                      \* the sink the records are written to
    JSONPrettyPrint,
    obscureSensitiveDataEnabled,
    sensitiveParams,
    traceCallerEnabled,
    singlePointTracing,
    colorEnabled,
    colorMap,
    proc,                           \* "running", "panicked" or "exited"
    panicValue,                     \* the value of the panic that ended the process
    exitCode,                       \* the status os.Exit was given
    out,                            \* what the latest call wrote: <<writer, text>> per Write
    last,                           \* the latest call and its arguments
    nOps,                           \* the calls made so far
    setter,                         \* the goroutine that calls a setter
    logger                          \* the goroutine that calls Info

config == <<logLevel, logWriter, JSONPrettyPrint, obscureSensitiveDataEnabled,
            sensitiveParams, traceCallerEnabled, singlePointTracing, colorEnabled,
            colorMap>>

vars == <<logLevel, logWriter, JSONPrettyPrint, obscureSensitiveDataEnabled,
          sensitiveParams, traceCallerEnabled, singlePointTracing, colorEnabled,
          colorMap, proc, panicValue, exitCode, out, last, nOps, setter, logger>>

\* the package-level variables as a log call reads them
Globals ==
    [logLevel |-> logLevel, logWriter |-> logWriter, JSONPrettyPrint |-> JSONPrettyPrint,
     obscureSensitiveDataEnabled |-> obscureSensitiveDataEnabled,
     sensitiveParams |-> sensitiveParams, traceCallerEnabled |-> traceCallerEnabled,
     singlePointTracing |-> singlePointTracing, colorEnabled |-> colorEnabled,
     colorMap |-> colorMap]

(***************************************************************************)
(* The inputs of the calls                                                 *)
(***************************************************************************)
\* the calls of one run
MaxOps == 2

Writers == {"os.Stdout", "buffer"}

\* the level names given to LogLevel: the seven labels, a name the table
\* does not hold and the empty name
LevelNames == Labels \cup {<<"v", "e", "r", "b", "o", "s", "e">>, <<>>}

\* the sensitive-field lists
ParamLists == {<<>>, <<<<"p">>>>, <<<<"p">>, <<"k">>>>}

\* a pointer field of Configs: <<>> is nil, <<v>> points to v
NoConfigs ==
    [LogLevel |-> <<>>, JSONPrettyPrint |-> <<>>, TraceCaller |-> <<>>,
     SinglePointTracing |-> <<>>, Colors |-> <<>>, CustomColors |-> <<>>,
     ObscureSensitiveData |-> <<>>, SensitiveParams |-> <<>>]

\* the CustomColors of the README: the levels it names and their colors
CyanTrace == (traceLabel :> "cyan")

\* every Configs that sets one field
OneField ==
    {[NoConfigs EXCEPT !.LogLevel = <<n>>] : n \in {traceLabel, warnLabel, <<"v", "e", "r", "b", "o", "s", "e">>}}
        \cup {[NoConfigs EXCEPT !.JSONPrettyPrint = <<b>>] : b \in BOOLEAN}
        \cup {[NoConfigs EXCEPT !.TraceCaller = <<b>>] : b \in BOOLEAN}
        \cup {[NoConfigs EXCEPT !.SinglePointTracing = <<b>>] : b \in BOOLEAN}
        \cup {[NoConfigs EXCEPT !.Colors = <<b>>] : b \in BOOLEAN}
        \cup {[NoConfigs EXCEPT !.CustomColors = <<CyanTrace>>]}
        \cup {[NoConfigs EXCEPT !.ObscureSensitiveData = <<b>>] : b \in BOOLEAN}
        \cup {[NoConfigs EXCEPT !.SensitiveParams = <<p>>] : p \in ParamLists}

\* the Configs literals of the README
ReadmeConfigs ==
    {[LogLevel |-> <<traceLabel>>, JSONPrettyPrint |-> <<TRUE>>, TraceCaller |-> <<TRUE>>,
      SinglePointTracing |-> <<>>, Colors |-> <<TRUE>>, CustomColors |-> <<CyanTrace>>,
      ObscureSensitiveData |-> <<TRUE>>, SensitiveParams |-> <<<<<<"p">>>>>>],
     [NoConfigs EXCEPT !.ObscureSensitiveData = <<TRUE>>, !.SensitiveParams = <<<<<<"p">>>>>>],
     [NoConfigs EXCEPT !.TraceCaller = <<TRUE>>, !.SinglePointTracing = <<TRUE>>]}

ConfigsSet == {NoConfigs} \cup OneField \cup ReadmeConfigs

\* the argument lists of the log calls
NoArgs == <<>>

PlainText == <<StrV(<<"h", "i">>)>>

PercentText == <<StrV(<<"1", "0", "0", "%">>)>>

JSONText == <<StrV(<<"{", Q, "u", Q, ":", Q, "x", Q, ",", Q, "p", Q, ":", Q, "s", Q, "}">>)>>

EscapedJSONText == <<StrV(<<"{", Q, "b", Q, ":", Q, "{", BS, Q, "p", BS, Q, ":", BS, Q, "s", BS, Q, "}", Q, "}">>)>>

QuotingText == <<StrV(<<"s", "e", "e", " ", Q, "p", Q, ":", Q, "s", Q, " ", "a", "n", "d", " ", Q, "u", Q>>)>>

Login == <<StructV(<<<<<<"u">>, StrV(<<"x">>)>>, <<<<"p">>, StrV(<<"s">>)>>>>)>>

NumericSecret == <<StructV(<<<<<<"p">>, IntV(<<"1">>)>>, <<<<"u">>, StrV(<<"x">>)>>>>)>>

Chained == <<StrV(<<"a">>), IntV(<<"1">>), StrV(<<"b">>)>>

Formatted == <<StrV(<<"%", "d", " ", "l", "e", "f", "t">>), IntV(<<"2">>)>>

OneNil == <<NilV>>

TwoNils == <<NilV, NilV>>

Messages ==
    {NoArgs, PlainText, PercentText, JSONText, EscapedJSONText, QuotingText, Login,
     NumericSecret, Chained, Formatted, OneNil, TwoNils}

NoCall ==
    [op |-> "", label |-> <<>>, message |-> <<>>, level |-> <<>>, configs |-> NoConfigs,
     params |-> <<>>, w |-> ""]

\* the setter goroutine before its call: pc is the statement it is at,
\* before the globals when its call began
SetterIdle == [pc |-> "idle", at |-> 0, configs |-> NoConfigs, params |-> <<>>, before |-> <<>>]

\* what the Info goroutine has read so far: <<>> is not read, <<v>> is v read
NothingSeen ==
    [logLevel |-> <<>>, obscureSensitiveDataEnabled |-> <<>>, paramsLen |-> <<>>,
     sensitiveParams |-> <<>>, traceCallerEnabled |-> <<>>, singlePointTracing |-> <<>>,
     JSONPrettyPrint |-> <<>>, colorEnabled |-> <<>>, colorMap |-> <<>>]

LoggerIdle == [pc |-> "idle", message |-> <<>>, seen |-> NothingSeen]

Init ==
    /\ logLevel = infoLevel
    /\ logWriter = "os.Stdout"
    /\ JSONPrettyPrint = FALSE
    /\ obscureSensitiveDataEnabled = FALSE
    /\ sensitiveParams = <<>>
    /\ traceCallerEnabled = FALSE
    /\ singlePointTracing = FALSE
    /\ colorEnabled = FALSE
    /\ colorMap = DefaultColors
    /\ proc = "running"
    /\ panicValue = NilV
    /\ exitCode = 0
    /\ out = <<>>
    /\ last = NoCall
    /\ nOps = 0
    /\ setter = SetterIdle
    /\ logger = LoggerIdle

(***************************************************************************)
(* The setters                                                             *)
(***************************************************************************)
\* a call: the process runs, no goroutine of the second specification does,
\* and the run has calls left
CanCall == proc = "running" /\ nOps < MaxOps /\ setter.pc = "idle" /\ logger.pc = "idle"

Called(op) == [NoCall EXCEPT !.op = op]

\* a setter returns: it writes nothing and the process runs on
Returns(call) ==
    /\ last' = call
    /\ nOps' = nOps + 1
    /\ out' = <<>>
    /\ UNCHANGED <<proc, panicValue, exitCode, setter, logger>>

\* LogLevel without its second statement: the zero of an unknown name stays
LogLevelNoFallback(level) == logLevels(level)

\* the threshold LogLevel(level) leaves
LogLevelValue(level) == IF logLevels(level) = 0 THEN infoLevel ELSE logLevels(level)

\* a flag field read as a plain bool: nil switches the setting off
AssignedUnchecked(ptr, cur) == IF ptr # <<>> THEN ptr[1] ELSE FALSE

\* a *bool field that is not nil replaces the flag
Assigned(ptr, cur) == IF ptr # <<>> THEN ptr[1] ELSE cur

\* setCustomColors(colors): the levels colors names take its colors
setCustomColors(cmap, colors) ==
    [l \in DOMAIN cmap \cup DOMAIN colors |-> IF l \in DOMAIN colors THEN colors[l] ELSE cmap[l]]

SetConfigs(configs) ==
    /\ CanCall
    /\ logLevel' = IF configs.LogLevel # <<>> THEN LogLevelValue(configs.LogLevel[1])
                   ELSE logLevel
    /\ JSONPrettyPrint' = Assigned(configs.JSONPrettyPrint, JSONPrettyPrint)
    /\ traceCallerEnabled' = Assigned(configs.TraceCaller, traceCallerEnabled)
    /\ singlePointTracing' = Assigned(configs.SinglePointTracing, singlePointTracing)
    /\ colorEnabled' = Assigned(configs.Colors, colorEnabled)
    /\ colorMap' = IF configs.CustomColors # <<>>
                   THEN setCustomColors(colorMap, configs.CustomColors[1])
                   ELSE colorMap
    /\ obscureSensitiveDataEnabled' =
           Assigned(configs.ObscureSensitiveData, obscureSensitiveDataEnabled)
    /\ sensitiveParams' = IF configs.SensitiveParams # <<>> THEN configs.SensitiveParams[1]
                          ELSE sensitiveParams
    /\ UNCHANGED logWriter
    /\ Returns([Called("SetConfigs") EXCEPT !.configs = configs])

LogLevel(level) ==
    /\ CanCall
    /\ logLevel' = LogLevelValue(level)
    /\ UNCHANGED <<logWriter, JSONPrettyPrint, obscureSensitiveDataEnabled, sensitiveParams,
                   traceCallerEnabled, singlePointTracing, colorEnabled, colorMap>>
    /\ Returns([Called("LogLevel") EXCEPT !.level = level])

LogWriter(w) ==
    /\ CanCall
    /\ logWriter' = w
    /\ UNCHANGED <<logLevel, JSONPrettyPrint, obscureSensitiveDataEnabled, sensitiveParams,
                   traceCallerEnabled, singlePointTracing, colorEnabled, colorMap>>
    /\ Returns([Called("LogWriter") EXCEPT !.w = w])

EnableJSONPrettyPrint ==
    /\ CanCall
    /\ JSONPrettyPrint' = TRUE
    /\ UNCHANGED <<logLevel, logWriter, obscureSensitiveDataEnabled, sensitiveParams,
                   traceCallerEnabled, singlePointTracing, colorEnabled, colorMap>>
    /\ Returns(Called("EnableJSONPrettyPrint"))

DisableJSONPrettyPrint ==
    /\ CanCall
    /\ JSONPrettyPrint' = FALSE
    /\ UNCHANGED <<logLevel, logWriter, obscureSensitiveDataEnabled, sensitiveParams,
                   traceCallerEnabled, singlePointTracing, colorEnabled, colorMap>>
    /\ Returns(Called("DisableJSONPrettyPrint"))

EnableObscureSensitiveData(params) ==
    /\ CanCall
    /\ obscureSensitiveDataEnabled' = TRUE
    /\ sensitiveParams' = params
    /\ UNCHANGED <<logLevel, logWriter, JSONPrettyPrint, traceCallerEnabled,
                   singlePointTracing, colorEnabled, colorMap>>
    /\ Returns([Called("EnableObscureSensitiveData") EXCEPT !.params = params])

DisableObscureSensitiveData ==
    /\ CanCall
    /\ obscureSensitiveDataEnabled' = FALSE
    /\ UNCHANGED <<logLevel, logWriter, JSONPrettyPrint, sensitiveParams, traceCallerEnabled,
                   singlePointTracing, colorEnabled, colorMap>>
    /\ Returns(Called("DisableObscureSensitiveData"))

SetSensitiveParams(params) ==
    /\ CanCall
    /\ sensitiveParams' = params
    /\ UNCHANGED <<logLevel, logWriter, JSONPrettyPrint, obscureSensitiveDataEnabled,
                   traceCallerEnabled, singlePointTracing, colorEnabled, colorMap>>
    /\ Returns([Called("SetSensitiveParams") EXCEPT !.params = params])

(***************************************************************************)
(* Level Dispatch: Trace, Debug, Info, Warn, Error, Panic, Fatal           *)
(***************************************************************************)
\* whether printLog(label, _) passes the threshold
Passes(label) == logLevels(label) >= logLevel

\* fmt.Fprintf(logWriter, text): one Write of the formatted text
Fprintf(w, format) == <<<<w, Sprintf(format, <<>>)>>>>

\* what printLog does with the value text of composeLog: a call that passes
\* the threshold writes the text, or panics with what composeLog panicked with
Printed(label, text) ==
    [out |-> IF Passes(label) /\ ~Panics(text) THEN Fprintf(logWriter, text.s) ELSE <<>>,
     panics |-> Passes(label) /\ Panics(text),
     value |-> IF Passes(label) /\ Panics(text) THEN text ELSE NilV]

\* printLog(label, message): what it writes, and the panic that cuts it short
printLog(label, message) == Printed(label, composeLog(label, message, Globals))

\* the call op ends with the outcome r of its printLog: it returns to its
\* caller, or with status # 0 it exits, unless printLog panicked
Ends(op, label, message, r, status) ==
    /\ out' = r.out
    /\ proc' = IF r.panics THEN "panicked" ELSE IF status # 0 THEN "exited" ELSE "running"
    /\ panicValue' = r.value
    /\ exitCode' = IF r.panics THEN exitCode ELSE status
    /\ last' = [Called(op) EXCEPT !.label = label, !.message = message]
    /\ nOps' = nOps + 1
    /\ UNCHANGED <<config, setter, logger>>

\* a leveled call: printLog(label, message)
Leveled(op, label, message) ==
    /\ CanCall
    /\ Ends(op, label, message, printLog(label, message), 0)

Trace(message) == Leveled("Trace", traceLabel, message)

Debug(message) == Leveled("Debug", debugLabel, message)

Info(message) == Leveled("Info", infoLabel, message)

Warn(message) == Leveled("Warn", warnLabel, message)

Error(message) == Leveled("Error", errorLabel, message)

\* panic(composeLog(panicLabel, message))
Panic(message) ==
    /\ CanCall
    /\ out' = <<>>
    /\ proc' = "panicked"
    /\ panicValue' = composeLog(panicLabel, message, Globals)
    /\ last' = [Called("Panic") EXCEPT !.label = panicLabel, !.message = message]
    /\ nOps' = nOps + 1
    /\ UNCHANGED <<config, exitCode, setter, logger>>

\* printLog(fatalLabel, message); os.Exit(1)
Fatal(message) ==
    /\ CanCall
    /\ Ends("Fatal", fatalLabel, message, printLog(fatalLabel, message), 1)

Next ==
    \/ \E configs \in ConfigsSet : SetConfigs(configs)
    \/ \E level \in LevelNames : LogLevel(level)
    \/ \E w \in Writers : LogWriter(w)
    \/ EnableJSONPrettyPrint
    \/ DisableJSONPrettyPrint
    \/ \E params \in ParamLists : EnableObscureSensitiveData(params)
    \/ DisableObscureSensitiveData
    \/ \E params \in ParamLists : SetSensitiveParams(params)
    \/ \E message \in Messages : Trace(message)
    \/ \E message \in Messages : Debug(message)
    \/ \E message \in Messages : Info(message)
    \/ \E message \in Messages : Warn(message)
    \/ \E message \in Messages : Error(message)
    \/ \E message \in Messages : Panic(message)
    \/ \E message \in Messages : Fatal(message)

Spec == Init /\ [][Next]_vars

(***************************************************************************)
(* Two goroutines: one calls a setter, the other Info with one string      *)
(* argument.  The globals are plain variables, no lock or atomic guards     *)
(* them: every statement of the setter that writes one and every place of  *)
(* the log call that reads one is a step of its own, and the steps of the   *)
(* two goroutines interleave.  A write or a read of one variable is taken   *)
(* as atomic.                                                              *)
(***************************************************************************)
Racing == proc = "running" /\ nOps = 0

\* go EnableObscureSensitiveData(params)
RaceEnableCall(params) ==
    /\ Racing /\ setter.pc = "idle"
    /\ setter' = [SetterIdle EXCEPT !.pc = "enable flag", !.params = params, !.before = Globals]
    /\ UNCHANGED <<config, proc, panicValue, exitCode, out, last, nOps, logger>>

\* obscureSensitiveDataEnabled = true
RaceEnableFlag ==
    /\ Racing /\ setter.pc = "enable flag"
    /\ obscureSensitiveDataEnabled' = TRUE
    /\ setter' = [setter EXCEPT !.pc = "enable params"]
    /\ UNCHANGED <<logLevel, logWriter, JSONPrettyPrint, sensitiveParams, traceCallerEnabled,
                   singlePointTracing, colorEnabled, colorMap, proc, panicValue, exitCode, out,
                   last, nOps, logger>>

\* SetSensitiveParams(params)
RaceEnableParams ==
    /\ Racing /\ setter.pc = "enable params"
    /\ sensitiveParams' = setter.params
    /\ setter' = [setter EXCEPT !.pc = "done"]
    /\ UNCHANGED <<logLevel, logWriter, JSONPrettyPrint, obscureSensitiveDataEnabled,
                   traceCallerEnabled, singlePointTracing, colorEnabled, colorMap, proc,
                   panicValue, exitCode, out, last, nOps, logger>>

\* go SetConfigs(configs)
RaceSetConfigsCall(configs) ==
    /\ Racing /\ setter.pc = "idle"
    /\ setter' = [SetterIdle EXCEPT !.pc = "SetConfigs", !.at = 1, !.configs = configs,
                                    !.before = Globals]
    /\ UNCHANGED <<config, proc, panicValue, exitCode, out, last, nOps, logger>>

\* the statements of SetConfigs that write a global, in their order; LogLevel
\* writes logLevel twice
Statements ==
    <<"logLevel = logLevels[level]", "if logLevel == 0", "JSONPrettyPrint", "TraceCaller", "SinglePointTracing", "Colors",
      "CustomColors", "ObscureSensitiveData", "SensitiveParams">>

\* the next if statement of SetConfigs
RaceSetConfigsStep ==
    /\ Racing /\ setter.pc = "SetConfigs"
    /\ logLevel' = IF setter.configs.LogLevel = <<>> THEN logLevel
                   ELSE IF Statements[setter.at] = "logLevel = logLevels[level]"
                       THEN logLevels(setter.configs.LogLevel[1])
                   ELSE IF Statements[setter.at] = "if logLevel == 0" /\ logLevel = 0
                       THEN infoLevel
                   ELSE logLevel
    /\ JSONPrettyPrint' = IF Statements[setter.at] = "JSONPrettyPrint"
                          THEN Assigned(setter.configs.JSONPrettyPrint, JSONPrettyPrint)
                          ELSE JSONPrettyPrint
    /\ traceCallerEnabled' = IF Statements[setter.at] = "TraceCaller"
                             THEN Assigned(setter.configs.TraceCaller, traceCallerEnabled)
                             ELSE traceCallerEnabled
    /\ singlePointTracing' = IF Statements[setter.at] = "SinglePointTracing"
                             THEN Assigned(setter.configs.SinglePointTracing, singlePointTracing)
                             ELSE singlePointTracing
    /\ colorEnabled' = IF Statements[setter.at] = "Colors"
                       THEN Assigned(setter.configs.Colors, colorEnabled) ELSE colorEnabled
    /\ colorMap' = IF Statements[setter.at] = "CustomColors" /\ setter.configs.CustomColors # <<>>
                   THEN setCustomColors(colorMap, setter.configs.CustomColors[1]) ELSE colorMap
    /\ obscureSensitiveDataEnabled' =
           IF Statements[setter.at] = "ObscureSensitiveData"
           THEN Assigned(setter.configs.ObscureSensitiveData, obscureSensitiveDataEnabled)
           ELSE obscureSensitiveDataEnabled
    /\ sensitiveParams' = IF Statements[setter.at] = "SensitiveParams"
                              /\ setter.configs.SensitiveParams # <<>>
                          THEN setter.configs.SensitiveParams[1] ELSE sensitiveParams
    /\ setter' = IF setter.at = Len(Statements) THEN [setter EXCEPT !.pc = "done"]
                 ELSE [setter EXCEPT !.at = setter.at + 1]
    /\ UNCHANGED <<logWriter, proc, panicValue, exitCode, out, last, nOps, logger>>

\* the Info goroutine goes to pc having read what seen says
Reads(pc, seen) ==
    /\ logger' = [logger EXCEPT !.pc = pc, !.seen = seen]
    /\ UNCHANGED <<config, proc, panicValue, exitCode, out, last, nOps, setter>>

\* go Info(message)
RaceInfoCall(message) ==
    /\ Racing /\ logger.pc = "idle"
    /\ logger' = [LoggerIdle EXCEPT !.pc = "threshold", !.message = message]
    /\ UNCHANGED <<config, proc, panicValue, exitCode, out, last, nOps, setter>>

\* printLog: logLevels[label] >= logLevel
RaceReadLevel ==
    /\ Racing /\ logger.pc = "threshold"
    /\ Reads(IF logLevels(infoLabel) >= logLevel THEN "enabled" ELSE "done",
             [logger.seen EXCEPT !.logLevel = <<logLevel>>])

\* adaptMessage: obscureSensitiveDataEnabled && ...
RaceReadEnabled ==
    /\ Racing /\ logger.pc = "enabled"
    /\ Reads(IF obscureSensitiveDataEnabled THEN "len" ELSE "trace",
             [logger.seen EXCEPT !.obscureSensitiveDataEnabled = <<obscureSensitiveDataEnabled>>])

\* adaptMessage: ... && len(sensitiveParams) != 0
RaceReadLen ==
    /\ Racing /\ logger.pc = "len"
    /\ Reads(IF Len(sensitiveParams) # 0 THEN "range" ELSE "trace",
             [logger.seen EXCEPT !.paramsLen = <<Len(sensitiveParams)>>])

\* obscureSensitiveData: range sensitiveParams
RaceReadParams ==
    /\ Racing /\ logger.pc = "range"
    /\ Reads("trace", [logger.seen EXCEPT !.sensitiveParams = <<sensitiveParams>>])

\* composeLog: if traceCallerEnabled, and the depth traceCaller skips
RaceReadTrace ==
    /\ Racing /\ logger.pc = "trace"
    /\ Reads("pretty", [logger.seen EXCEPT !.traceCallerEnabled = <<traceCallerEnabled>>,
                                            !.singlePointTracing = <<singlePointTracing>>])

\* composeLog: if JSONPrettyPrint
RaceReadPretty ==
    /\ Racing /\ logger.pc = "pretty"
    /\ Reads("color", [logger.seen EXCEPT !.JSONPrettyPrint = <<JSONPrettyPrint>>])

\* composeLog: if colorEnabled, and colorMap[level]
RaceReadColor ==
    /\ Racing /\ logger.pc = "color"
    /\ Reads("write", [logger.seen EXCEPT !.colorEnabled = <<colorEnabled>>,
                                           !.colorMap = <<colorMap>>])

\* the globals the call composed its record under: what it read, and for
\* what it did not read the value that takes the branch it took
SeenGlobals(seen) ==
    [logLevel |-> seen.logLevel[1], logWriter |-> logWriter,
     JSONPrettyPrint |-> seen.JSONPrettyPrint[1],
     obscureSensitiveDataEnabled |->
         seen.obscureSensitiveDataEnabled[1] /\ seen.sensitiveParams # <<>>,
     sensitiveParams |-> IF seen.sensitiveParams # <<>> THEN seen.sensitiveParams[1] ELSE <<>>,
     traceCallerEnabled |-> seen.traceCallerEnabled[1],
     singlePointTracing |-> seen.singlePointTracing[1],
     colorEnabled |-> seen.colorEnabled[1], colorMap |-> seen.colorMap[1]]

\* fmt.Fprintf(logWriter, composeLog(label, message))
RaceWrite ==
    /\ Racing /\ logger.pc = "write"
    /\ out' = Fprintf(logWriter, composeLog(infoLabel, logger.message, SeenGlobals(logger.seen)).s)
    /\ logger' = [logger EXCEPT !.pc = "done"]
    /\ UNCHANGED <<config, proc, panicValue, exitCode, last, nOps, setter>>

RaceNext ==
    \/ \E params \in ParamLists : RaceEnableCall(params)
    \/ RaceEnableFlag
    \/ RaceEnableParams
    \/ \E configs \in ConfigsSet : RaceSetConfigsCall(configs)
    \/ RaceSetConfigsStep
    \/ \E message \in {PlainText, JSONText} : RaceInfoCall(message)
    \/ RaceReadLevel
    \/ RaceReadEnabled
    \/ RaceReadLen
    \/ RaceReadParams
    \/ RaceReadTrace
    \/ RaceReadPretty
    \/ RaceReadColor
    \/ RaceWrite

SpecRace == Init /\ [][RaceNext]_vars

(***************************************************************************)
(* The contracts of the package, each stated over the last call and what   *)
(* it left: out, proc, panicValue, exitCode and the globals                *)
(***************************************************************************)
LeveledOps == {"Trace", "Debug", "Info", "Warn", "Error"}

\* the last call came to render a record: Panic always, the others past the
\* threshold
Renders == last.op = "Panic" \/ (last.op \in LeveledOps \cup {"Fatal"} /\ Passes(last.label))

\* the last call left what a record with the message msg leaves: Panic the
\* rendered text as the panic value, the others the write of it
Leaves(msg) ==
    IF last.op = "Panic" THEN panicValue = Rendered(last.label, msg, Globals)
    ELSE out = Fprintf(logWriter, Rendered(last.label, msg, Globals).s)

\* C1: a call of Trace, Debug, Info, Warn or Error writes one record to the
\* sink if and only if the rank of its level is at least the threshold
C1_WritesIffPasses ==
    last.op \in LeveledOps => (Len(out) = 1 <=> logLevels(last.label) >= logLevel)

\* C2: Fatal writes its record exactly once and then ends the process with a
\* non-zero status, whatever the threshold
C2_FatalWritesThenExits ==
    last.op = "Fatal" => Len(out) = 1 /\ proc = "exited" /\ exitCode # 0

\* C3: Panic renders whatever the threshold, panics with the rendered text as
\* the panic value and writes nothing
C3_PanicCarriesRecord ==
    last.op = "Panic" => proc = "panicked" /\ panicValue.k = "string" /\ out = <<>>

\* C4: after LogLevel(name) the threshold is the rank of name for the seven
\* level names and the rank of info for any other name, and the call returns
C4_ThresholdOfName ==
    last.op = "LogLevel" =>
        /\ proc = "running"
        /\ logLevel = CASE last.level = traceLabel -> traceLevel
                        [] last.level = debugLabel -> debugLevel
                        [] last.level = infoLabel -> infoLevel
                        [] last.level = warnLabel -> warnLevel
                        [] last.level = errorLabel -> errorLevel
                        [] last.level = panicLabel -> panicLevel
                        [] last.level = fatalLabel -> fatalLevel
                        [] OTHER -> infoLevel

\* LogLevel of a name that is no level left the threshold at info
C4_FellBack == last.op = "LogLevel" /\ last.level \notin Labels /\ logLevel = infoLevel

\* C5: a step of SetConfigs leaves every setting whose field is nil, and the
\* sink, as they were
C5_AbsentFieldsKept ==
    [][last'.op = "SetConfigs" /\ nOps' = nOps + 1 =>
          /\ logWriter' = logWriter
          /\ last'.configs.LogLevel = <<>> => logLevel' = logLevel
          /\ last'.configs.JSONPrettyPrint = <<>> => JSONPrettyPrint' = JSONPrettyPrint
          /\ last'.configs.TraceCaller = <<>> => traceCallerEnabled' = traceCallerEnabled
          /\ last'.configs.SinglePointTracing = <<>> => singlePointTracing' = singlePointTracing
          /\ last'.configs.Colors = <<>> => colorEnabled' = colorEnabled
          /\ last'.configs.CustomColors = <<>> => colorMap' = colorMap
          /\ last'.configs.ObscureSensitiveData = <<>> =>
                 obscureSensitiveDataEnabled' = obscureSensitiveDataEnabled
          /\ last'.configs.SensitiveParams = <<>> => sensitiveParams' = sensitiveParams]_vars

\* a SetConfigs that sets the threshold alone came after settings that were
\* no longer the defaults, and they are still in force
C5_KeptOverCall ==
    /\ last.op = "SetConfigs"
    /\ last.configs.LogLevel # <<>>
    /\ last.configs.JSONPrettyPrint = <<>> /\ JSONPrettyPrint
    /\ last.configs.SensitiveParams = <<>> /\ sensitiveParams = <<>>
    /\ logLevel = traceLevel

\* the fields of a JSON object with the value of every field params names
\* replaced by the mask
RECURSIVE Masked(_, _)
Masked(f, params) ==
    IF f = <<>> THEN <<>>
    ELSE <<<<Head(f)[1], IF \E i \in 1..Len(params) : params[i] = Head(f)[1]
                         THEN StrV(Mask) ELSE Head(f)[2]>>>>
             \o Masked(Tail(f), params)

\* the JSON payload of the one argument of a call: the text of a string, the
\* serialization of any other value
Payload(arg) == IF arg.k = "string" THEN Unmarshal(arg.s) ELSE Unmarshal(Marshal(arg))

\* the payload r is an object that holds a field params names
HoldsSensitive(r, params) ==
    /\ r.ok /\ r.v.k = "map"
    /\ \E i \in 1..Len(params), j \in 1..Len(r.v.f) : r.v.f[j][1] = params[i]

\* C6: with redaction enabled, a one-argument call whose JSON payload holds a
\* configured field renders as message the payload with every configured
\* field at the mask and every other field at its value
C6_MasksConfiguredOnly ==
    (Renders /\ Len(last.message) = 1 /\ obscureSensitiveDataEnabled
        /\ HoldsSensitive(Payload(last.message[1]), sensitiveParams))
    => Leaves(MapV(Masked(Payload(last.message[1]).v.f, sensitiveParams)))

\* C7: a call with one string argument that is not valid JSON renders the
\* string itself as message, under every configuration
C7_PlainStringKept ==
    (Renders /\ Len(last.message) = 1 /\ last.message[1].k = "string"
        /\ ~Valid(last.message[1].s))
    => Leaves(last.message[1])

\* C8: no call of Trace, Debug, Info, Warn or Error panics or ends the
\* process, whatever its arguments and the configuration
C8_LeveledReturns == last.op \in LeveledOps => proc = "running" /\ panicValue = NilV

\* what the Info goroutine read agrees with the globals g
Agrees(seen, g) ==
    /\ seen.logLevel = <<>> \/ seen.logLevel[1] = g.logLevel
    /\ seen.obscureSensitiveDataEnabled = <<>>
           \/ seen.obscureSensitiveDataEnabled[1] = g.obscureSensitiveDataEnabled
    /\ seen.paramsLen = <<>> \/ seen.paramsLen[1] = Len(g.sensitiveParams)
    /\ seen.sensitiveParams = <<>> \/ seen.sensitiveParams[1] = g.sensitiveParams
    /\ seen.traceCallerEnabled = <<>> \/ seen.traceCallerEnabled[1] = g.traceCallerEnabled
    /\ seen.singlePointTracing = <<>> \/ seen.singlePointTracing[1] = g.singlePointTracing
    /\ seen.JSONPrettyPrint = <<>> \/ seen.JSONPrettyPrint[1] = g.JSONPrettyPrint
    /\ seen.colorEnabled = <<>> \/ seen.colorEnabled[1] = g.colorEnabled
    /\ seen.colorMap = <<>> \/ seen.colorMap[1] = g.colorMap

\* C9: the settings a log call reads while a setter runs are all those in
\* force before the setter's call or all those in force after it
C9_NoTornConfiguration ==
    (logger.pc = "done" /\ setter.pc = "done")
    => Agrees(logger.seen, setter.before) \/ Agrees(logger.seen, Globals)

\* C10: the text a call writes to the sink is the text composeLog returned
\* for it, whatever the message holds
C10_WritesRenderedText ==
    (last.op \in LeveledOps \cup {"Fatal"} /\ out # <<>>)
    => out[1][2] = composeLog(last.label, last.message, Globals).s

====
